---- MODULE Spec2Model ----
(***************************************************************************)
(* A model of the nilarg analyzer (src/nilarg.go): the per-function scan   *)
(* checkFunc, the dominator walk isNilChecked, the sweep loop of run and   *)
(* the diagnostic post-pass runFunc, over small SSA units.                 *)
(*                                                                         *)
(* An SSA unit is a sequence of functions in SrcFuncs order.  A function   *)
(* is a record                                                             *)
(*    types  : the type kind of each parameter (types[i+1] is the type of  *)
(*             fn.Params[i]),                                              *)
(*    obj    : whether fn.Object() is non-nil (a declared function),       *)
(*    cfg    : its blocks: idom and the terminator of each block, indexed  *)
(*             by b.Index,                                                 *)
(*    instrs : its instructions in emission order; the referrers of a      *)
(*             parameter are the instructions that have it as an operand,  *)
(*             in this order.                                              *)
(* Go slices are 0-based: Args[k] is args[k+1], Succs[k] is succs[k+1].    *)
(***************************************************************************)
EXTENDS Integers, Sequences, FiniteSets, TLC

\* funcs        ssainput.SrcFuncs, the unit
\* extDone      whether pass.ImportPackageFact finds the other package's pkgDone
\* store        the panicArgs object facts of the unit's functions
\* pc, cur      where run is: in the sweep loop ("sweep") or in the post-pass
\*              ("post") at function cur of SrcFuncs, or returned ("done")
\* cc           run's counter of the calls of checkFunc that returned true
\* sweeps       the number of the sweep run is in
\* pkgDoneCount how often pkgDone was exported
\* diags        the diagnostics reported: <<function, instruction, index>>
\* last         the last call of checkFunc: its function fn, the value it
\*              returned (changed), the fact stored for fn when it was called
\*              (old) and when it returned (new)
VARIABLES funcs, extDone, store, pc, cur, cc, sweeps, pkgDoneCount, diags, last

vars == <<funcs, extDone, store, pc, cur, cc, sweeps, pkgDoneCount, diags, last>>

\* Bound: the size of a unit, its parameters plus its instructions
\* (a block that ends in an If counts two, the comparison and the If).
MaxSize == 6

\* Bound: the number of sweeps of run's loop the model follows.
MaxSweeps == 3

\* Bounds: the size of the single function of a unit of the family "scan",
\* and the number of its parameters.
MaxScanSize == 5

MaxScanParams == 2

\* Bound: the number of instructions of a function of the family "diag".
MaxDiagInstrs == 2

\* b.Idom() == nil
NoBlock == -1

(***************************************************************************)
(* SSA values.                                                             *)
(***************************************************************************)
Param(i) == <<"Parameter", i>>

NilConst == <<"Const", 0>>

NonNilConst == <<"Const", 1>>

AllocValue == <<"Alloc", 0>>

OtherValue == <<"Value", 0>>

\* instr.Common().StaticCallee().Object(): a function of this package, a
\* function of another package, or none (builtin, dynamic, function literal).
Local(g) == <<"local", g>>

ExtCallee == <<"ext", 0>>

NoCallee == <<"none", 0>>

\* The function of the other package has one parameter, and its imported
\* panicArgs fact is {0} ((*bytes.Buffer).Bytes in the test data).
ExtArity == 1

ExtFact == {0}

CallKinds == {"Call", "Go", "Defer"}

Instr(kind, blk, x, y, op, commaOk, callee, invoke, args) ==
    [kind |-> kind, blk |-> blk, x |-> x, y |-> y, op |-> op,
     commaOk |-> commaOk, callee |-> callee, invoke |-> invoke, args |-> args]

UnOp(op, x, blk) ==
    Instr("UnOp", blk, x, OtherValue, op, FALSE, NoCallee, FALSE, <<>>)

StaticCall(callee, args, blk) ==
    Instr("Call", blk, OtherValue, OtherValue, "", FALSE, callee, FALSE, args)

\* A call, go or defer (kind) of a statically known callee.
CallForm(kind, callee, args, blk) ==
    Instr(kind, blk, OtherValue, OtherValue, "", FALSE, callee, FALSE, args)

\* A call of an interface method: IsInvoke(), no StaticCallee().
InvokeCall(args, blk) ==
    Instr("Call", blk, OtherValue, OtherValue, "", FALSE, NoCallee, TRUE, args)

\* An instruction with the operand x: FieldAddr, Field, IndexAddr, Slice
\* (X), Store (Addr), MapUpdate, Lookup (Map).
Ref(kind, x, blk) ==
    Instr(kind, blk, x, OtherValue, "", FALSE, NoCallee, FALSE, <<>>)

\* *addr = val with the value val stored through another address.
StoreVal(val, blk) ==
    Instr("Store", blk, OtherValue, val, "", FALSE, NoCallee, FALSE, <<>>)

TypeAssert(x, commaOk, blk) ==
    Instr("TypeAssert", blk, x, OtherValue, "", commaOk, NoCallee, FALSE, <<>>)

RefersTo(ins, v) ==
    \/ ins.x = v
    \/ ins.y = v
    \/ \E k \in DOMAIN ins.args : ins.args[k] = v

(***************************************************************************)
(* Control-flow graphs.                                                    *)
(***************************************************************************)
Term(kind, op, x, y, succs) ==
    [kind |-> kind, op |-> op, x |-> x, y |-> y, succs |-> succs]

Return == Term("Return", "", OtherValue, OtherValue, <<>>)

Jump(b) == Term("Jump", "", OtherValue, OtherValue, <<b>>)

If(op, x, y, t, f) == Term("If", op, x, y, <<t, f>>)

\* A function without branches: one block.
Straight ==
    [idom |-> (0 :> NoBlock), term |-> (0 :> Return)]

\* f4: if v == nil { return }; ...      0: if v == nil goto 1 else 2
IfEq(v) ==
    [idom |-> (0 :> NoBlock @@ 1 :> 0 @@ 2 :> 0),
     term |-> (0 :> If("EQL", v, NilConst, 1, 2) @@ 1 :> Return @@ 2 :> Return)]

\* f5, f9: if nil != v { ... }          0: if nil != v goto 1 else 2; 1: jump 2
IfNeq(v) ==
    [idom |-> (0 :> NoBlock @@ 1 :> 0 @@ 2 :> 0),
     term |-> (0 :> If("NEQ", NilConst, v, 1, 2) @@ 1 :> Jump(2) @@ 2 :> Return)]

\* if (*T)(nil) != nil { ... }: both operands are constants.
IfNilNeqNil ==
    [idom |-> (0 :> NoBlock @@ 1 :> 0 @@ 2 :> 0),
     term |-> (0 :> If("NEQ", NilConst, NilConst, 1, 2) @@ 1 :> Jump(2)
                 @@ 2 :> Return)]

\* if v == nil { if v != nil { ... }; ...; return }; ...
\*    0: if v == nil goto 1 else 2; 1: if v != nil goto 3 else 4; 3: jump 4
Nested(v) ==
    [idom |-> (0 :> NoBlock @@ 1 :> 0 @@ 2 :> 0 @@ 3 :> 1 @@ 4 :> 1),
     term |-> (0 :> If("EQL", v, NilConst, 1, 2) @@ 1 :> If("NEQ", v, NilConst, 3, 4)
                 @@ 2 :> Return @@ 3 :> Jump(4) @@ 4 :> Return)]

\* if v != nil { if v == nil { ... }; ... }
\*    0: if v != nil goto 1 else 2; 1: if v == nil goto 3 else 4; 3: jump 4;
\*    4: jump 2
NestedNeq(v) ==
    [idom |-> (0 :> NoBlock @@ 1 :> 0 @@ 2 :> 0 @@ 3 :> 1 @@ 4 :> 1),
     term |-> (0 :> If("NEQ", v, NilConst, 1, 2) @@ 1 :> If("EQL", v, NilConst, 3, 4)
                 @@ 2 :> Return @@ 3 :> Jump(4) @@ 4 :> Jump(2))]

Blocks(cfg) == DOMAIN cfg.idom

\* The instructions of a CFG that the size of a unit counts: the BinOp and
\* the If of each block that ends in an If.
CfgSize(cfg) ==
    Cardinality({b \in Blocks(cfg) : cfg.term[b].kind = "If"} \X {"BinOp", "If"})

NParams(fn) == Len(fn.types)

(***************************************************************************)
(* isNillable, isNil, isNilChecked.                                        *)
(***************************************************************************)
TypeKinds ==
    {"Pointer", "Interface", "Map", "Slice", "Chan", "Signature", "Struct", "Basic"}

\* isNillable with the case of the channel types added.
isNillableWithChan(t) == t \in {"Slice", "Interface", "Map", "Pointer", "Chan"}

\* isNillable with every type taken as nillable.
isNillableAll(t) == TRUE

\* isNillable without the case of the map types.
isNillableNoMap(t) == t \in {"Slice", "Interface", "Pointer"}

isNillable(t) == t \in {"Slice", "Interface", "Map", "Pointer"}

isNil(value) == value = NilConst

\* v is compared with the nil constant by the BinOp that terminator t tests.
NilCompare(t, v) ==
    \/ isNil(t.x) /\ t.y = v
    \/ isNil(t.y) /\ t.x = v

\* The visited argument is left out: vis.Or(visited, vis) returns the pointer
\* vis, a *big.Int allocated by this call, which never equals the pointer
\* visited, so the early return of line 225 is never taken.
RECURSIVE isNilChecked(_, _, _)
isNilChecked(cfg, v, b) ==
    LET bi == cfg.idom[b] IN
    IF bi = NoBlock THEN FALSE
    ELSE LET t == cfg.term[bi] IN
         IF t.kind = "If" /\ t.op = "EQL" /\ NilCompare(t, v)
         THEN b = t.succs[2]
         ELSE IF t.kind = "If" /\ t.op = "NEQ" /\ NilCompare(t, v)
         THEN b = t.succs[1]
         ELSE isNilChecked(cfg, v, bi)

(***************************************************************************)
(* The FactStore of the pass: store[f] is the panicArgs object fact of     *)
(* function f (has: ImportObjectFact's result, args: the set).             *)
(***************************************************************************)
NoFact == [has |-> FALSE, args |-> {}]

Fact(args) == [has |-> TRUE, args |-> args]

\* pass.ImportObjectFact(f, &ffact) for the callee of a call.  The other
\* package exports its object facts and its pkgDone fact in the same pass,
\* so its fact is there when its pkgDone is (done).
ImportObjectFact(st, done, callee) ==
    IF callee = ExtCallee
    THEN (IF done THEN Fact(ExtFact) ELSE NoFact)
    ELSE st[callee[2]]

\* PanicArgs(F): the stored set, empty when there is no entry.
Get(st, f) == st[f].args

(***************************************************************************)
(* checkFunc.  ord is the order in which one scan's range loops enumerate  *)
(* a callee's panicArgs map: ord[k] is the sequence of keys that the loops *)
(* of instruction k go through (Go leaves the order of a map's keys open). *)
(***************************************************************************)
\* NotNilChecked with the nil check of the block forgotten.
NotNilCheckedForgotten(fn, i, ins) == TRUE

\* !isNilChecked(fp, instr.Block(), start)
NotNilChecked(fn, i, ins) == ~isNilChecked(fn.cfg, Param(i), ins.blk)

\* for fi := range ffact, in the order enum, from position k.
RECURSIVE RangeLoop(_, _, _, _, _)
RangeLoop(fn, i, ins, enum, k) ==
    IF k > Len(enum) THEN FALSE
    ELSE IF i >= Len(ins.args) THEN RangeLoop(fn, i, ins, enum, k + 1)
    ELSE IF ins.args[enum[k] + 1] = Param(i) /\ NotNilChecked(fn, i, ins)
         THEN TRUE
         ELSE RangeLoop(fn, i, ins, enum, k + 1)

\* RangeFact with a loop that ends at the first key, match or not.
RangeFactFirstKey(fn, i, ins, enum) ==
    /\ enum # <<>>
    /\ i < Len(ins.args)
    /\ ins.args[enum[1] + 1] = Param(i)
    /\ NotNilChecked(fn, i, ins)

\* The range loop over the callee's fact: whether it sets fact[i].
RangeFact(fn, i, ins, enum) == RangeLoop(fn, i, ins, enum, 1)

\* The case ssa.CallInstruction: "trap" (fact[i] is set, break refLoop),
\* "retry" (return true) or "next" (the next referrer).
CallCase(fn, i, ins, st, done, enum) ==
    IF ins.invoke THEN "next"
    ELSE IF ins.callee = NoCallee THEN "next"
    ELSE IF ins.callee = ExtCallee /\ ~done THEN "retry"
    ELSE LET ffact == ImportObjectFact(st, done, ins.callee) IN
         IF ffact.has /\ RangeFact(fn, i, ins, enum)
         THEN "trap" ELSE "next"

\* The cases of the type switch on one referrer of fn.Params[i].
Classify(fn, i, ins, st, done, enum) ==
    LET fp == Param(i)
        unchecked == NotNilChecked(fn, i, ins)
        trapIf(c) == IF c /\ unchecked THEN "trap" ELSE "next"
    IN  CASE ins.kind \in CallKinds -> CallCase(fn, i, ins, st, done, enum)
          [] ins.kind = "FieldAddr" -> trapIf(ins.x = fp)
          [] ins.kind = "Field" -> trapIf(ins.x = fp)
          [] ins.kind = "IndexAddr" -> trapIf(ins.x = fp)
          [] ins.kind = "TypeAssert" -> trapIf(ins.x = fp /\ ~ins.commaOk)
          [] ins.kind = "Slice" ->
                trapIf(fn.types[i + 1] = "Pointer" /\ ins.x = fp)
          [] ins.kind = "Store" -> trapIf(ins.x = fp)
          [] ins.kind = "MapUpdate" -> trapIf(ins.x = fp)
          [] ins.kind = "UnOp" -> trapIf(ins.x = fp /\ ins.op = "MUL")
          [] OTHER -> "next"

\* refLoop over the referrers of fn.Params[i], from instruction k.
RECURSIVE RefLoop(_, _, _, _, _, _)
RefLoop(fn, i, st, done, ord, k) ==
    IF k > Len(fn.instrs) THEN "next"
    ELSE IF ~RefersTo(fn.instrs[k], Param(i))
    THEN RefLoop(fn, i, st, done, ord, k + 1)
    ELSE LET c == Classify(fn, i, fn.instrs[k], st, done, ord[k]) IN
         IF c = "next" THEN RefLoop(fn, i, st, done, ord, k + 1) ELSE c

\* The loop over fn.Params from index i with the map fact built so far:
\* the fact at the end of the loop, or retry when the scan returned true at
\* the call of a package that is not done.
RECURSIVE ParamLoop(_, _, _, _, _, _)
ParamLoop(fn, st, done, ord, i, fact) ==
    IF i >= NParams(fn) THEN [retry |-> FALSE, fact |-> fact]
    ELSE IF ~isNillable(fn.types[i + 1])
    THEN ParamLoop(fn, st, done, ord, i + 1, fact)
    ELSE LET c == RefLoop(fn, i, st, done, ord, 1) IN
         IF c = "retry" THEN [retry |-> TRUE, fact |-> fact]
         ELSE ParamLoop(fn, st, done, ord, i + 1,
                        IF c = "trap" THEN fact \cup {i} ELSE fact)

\* checkFunc exporting only the indices that are new.
checkFuncExportsNew(fs, f, st, done, ord) ==
    LET fn == fs[f]
        scan == ParamLoop(fn, st, done, ord, 0, {})
    IN  IF scan.retry THEN [changed |-> TRUE, store |-> st]
        ELSE IF scan.fact # {} /\ fn.obj
        THEN [changed |-> st[f].has /\ st[f].args # scan.fact,
              store |-> [st EXCEPT ![f] = Fact(scan.fact \ st[f].args)]]
        ELSE [changed |-> FALSE, store |-> st]

\* checkFunc(pass, fn) for fn = fs[f]: the value returned and the store left.
checkFunc(fs, f, st, done, ord) ==
    LET fn == fs[f]
        scan == ParamLoop(fn, st, done, ord, 0, {})
    IN  IF scan.retry THEN [changed |-> TRUE, store |-> st]
        ELSE IF scan.fact # {} /\ fn.obj
        THEN [changed |-> st[f].has /\ st[f].args # scan.fact,
              store |-> [st EXCEPT ![f] = Fact(scan.fact)]]
        ELSE [changed |-> FALSE, store |-> st]

(***************************************************************************)
(* The units the model runs on: every unit of at most MaxSize parameters   *)
(* plus instructions whose instructions come from a family's alphabet.     *)
(***************************************************************************)
RECURSIVE Sum(_)
Sum(s) == IF s = <<>> THEN 0 ELSE Head(s) + Sum(Tail(s))

\* The numbers of parameters of the functions of a unit: every function
\* has at least one parameter, and the sum is at most n.
RECURSIVE Signatures(_)
Signatures(n) ==
    {<<>>} \cup UNION {{<<k>> \o s : s \in Signatures(n - k)} : k \in 1..n}

SeqsUpTo(A, n) == UNION {[1..k -> A] : k \in 0..n}

\* The arguments of a call with `arity` arguments, one of which is a
\* parameter of the caller (which has np parameters).
OneParamArgs(np, arity) ==
    {[k \in 1..arity |-> IF k = pos THEN Param(i) ELSE OtherValue] :
        pos \in 1..arity, i \in 0..(np - 1)}

\* The calls function f of a unit with signature sig can make in block b:
\* to a function of the unit or to the function of the other package, with
\* as many arguments as the callee has parameters.
CallsIn(sig, f, b) ==
    UNION {{StaticCall(Local(g), a, b) : a \in OneParamArgs(sig[f], sig[g])} :
              g \in 1..Len(sig)}
    \cup {StaticCall(ExtCallee, a, b) : a \in OneParamArgs(sig[f], ExtArity)}

\* The arguments of a call with `arity` arguments, one of which is a
\* parameter of the caller or the nil constant.
OneNilArgs(np, arity) ==
    {[k \in 1..arity |-> IF k = pos THEN v ELSE OtherValue] :
        pos \in 1..arity, v \in {Param(i) : i \in 0..(np - 1)} \cup {NilConst}}

\* Family "diag": the calls function f can make in block b, of a function
\* of the unit, of the function of the other package (also deferred) and
\* of an interface method.
DiagCallsIn(sig, f, b) ==
    UNION {{StaticCall(Local(g), a, b) : a \in OneNilArgs(sig[f], sig[g])} :
              g \in 1..Len(sig)}
    \cup {CallForm(kind, ExtCallee, a, b) :
               kind \in {"Call", "Defer"}, a \in OneNilArgs(sig[f], ExtArity)}
    \cup {InvokeCall(<<NilConst>>, b)}

\* Family "scan": the instructions that can have the value v of a type of
\* kind t as an operand.
ScanInstrs(t, v, b) ==
    CASE t = "Pointer" ->
            {Ref("FieldAddr", v, b), Ref("IndexAddr", v, b), Ref("Slice", v, b),
             Ref("Store", v, b), StoreVal(v, b), UnOp("MUL", v, b),
             StaticCall(ExtCallee, <<v>>, b)}
      [] t = "Interface" -> {TypeAssert(v, FALSE, b), TypeAssert(v, TRUE, b)}
      [] t = "Map" -> {Ref("MapUpdate", v, b), Ref("Lookup", v, b)}
      [] t = "Slice" -> {Ref("IndexAddr", v, b), Ref("Slice", v, b)}
      [] t = "Chan" -> {UnOp("ARROW", v, b)}
      [] t = "Signature" -> {StoreVal(v, b)}
      [] t = "Struct" -> {Ref("Field", v, b), StaticCall(ExtCallee, <<v>>, b)}
      [] OTHER -> {UnOp("SUB", v, b)}

\* The instructions function f of a unit can have, by family:
\* "calls": pointer parameters, dereferences and static calls;
\* "diag":  the same, with the calls, which may pass the nil constant, all
\*          in the first function of the unit;
\* "scan":  parameters of every kind of type and the instructions that
\*          take them, the call of the other package's function included.
Alphabet(fam, sig, ts, f, cfg) ==
    UNION {CASE fam = "calls" ->
                  {UnOp("MUL", Param(i), b) : i \in 0..(sig[f] - 1)}
                      \cup CallsIn(sig, f, b)
             [] fam = "diag" ->
                  {UnOp("MUL", Param(i), b) : i \in 0..(sig[f] - 1)}
                      \cup (IF f = 1 THEN DiagCallsIn(sig, f, b) ELSE {})
             [] OTHER ->
                  UNION {ScanInstrs(ts[i + 1], Param(i), b) : i \in 0..(sig[f] - 1)}
           : b \in Blocks(cfg)}

Shapes(fam, np) ==
    {Straight} \cup {IfEq(Param(i)) : i \in 0..(np - 1)}
               \cup {IfNeq(Param(i)) : i \in 0..(np - 1)}
               \cup (IF fam = "diag"
                     THEN {IfNilNeqNil} \cup {Nested(Param(i)) : i \in 0..(np - 1)}
                     ELSE {})
               \cup (IF fam = "calls"
                     THEN {NestedNeq(Param(i)) : i \in 0..(np - 1)}
                     ELSE {})

TypesOf(fam, np) ==
    IF fam = "scan" THEN [1..np -> TypeKinds] ELSE {[k \in 1..np |-> "Pointer"]}

\* fn.Object() != nil: function literals have no object.
ObjectsOf(fam) == IF fam = "scan" THEN BOOLEAN ELSE {TRUE}

\* The signatures and the size of the units of a family.
SignaturesOf(fam) ==
    IF fam = "scan" THEN {<<np>> : np \in 1..MaxScanParams}
    ELSE Signatures(MaxSize) \ {<<>>}

SizeOf(fam) == IF fam = "scan" THEN MaxScanSize ELSE MaxSize

\* The number of instructions a function of a unit of a family may have.
InstrsOf(fam) == IF fam = "diag" THEN MaxDiagInstrs ELSE SizeOf(fam)

Function(types, obj, cfg, instrs) ==
    [types |-> types, obj |-> obj, cfg |-> cfg, instrs |-> instrs]

\* The sequences that take their k-th element from the k-th set of sets.
RECURSIVE Product(_)
Product(sets) ==
    IF sets = <<>> THEN {<<>>}
    ELSE {<<x>> \o rest : x \in Head(sets), rest \in Product(Tail(sets))}

\* The CFG of each function of a unit with signature sig.
ShapeVectors(fam, sig) ==
    Product([f \in 1..Len(sig) |-> Shapes(fam, sig[f])])

CfgSizes(cv) == Sum([f \in 1..Len(cv) |-> CfgSize(cv[f])])

\* The number of instructions of each function.
LenVectors(n, room) == {lv \in [1..n -> 0..room] : Sum(lv) <= room}

\* The units with signature sig, CFGs cv and lv[f] instructions in function f.
UnitsOf(fam, sig, cv, lv) ==
    Product([f \in 1..Len(sig) |->
        UNION {{Function(ts, o, cv[f], is) :
                   o \in ObjectsOf(fam),
                   is \in [1..lv[f] -> Alphabet(fam, sig, ts, f, cv[f])]} :
               ts \in TypesOf(fam, sig[f])}])

\* fs is a unit of the family, of at most the family's size.
IsUnit(fam, fs) ==
    \E sig \in SignaturesOf(fam) :
        \E cv \in ShapeVectors(fam, sig) :
            /\ Sum(sig) + CfgSizes(cv) <= SizeOf(fam)
            /\ \E lv \in LenVectors(Len(sig), SizeOf(fam) - Sum(sig) - CfgSizes(cv)) :
                   /\ \A f \in DOMAIN lv : lv[f] <= InstrsOf(fam)
                   /\ fs \in UnitsOf(fam, sig, cv, lv)

HasExtCall(fs) ==
    \E f \in DOMAIN fs : \E k \in DOMAIN fs[f].instrs :
        fs[f].instrs[k].callee = ExtCallee

(***************************************************************************)
(* runFunc: the diagnostic post-pass.                                      *)
(***************************************************************************)
negate(n) ==
    CASE n = "isnil" -> "isnonnil" [] n = "isnonnil" -> "isnil" [] OTHER -> n

\* The first fact of the stack about v, from position k.
RECURSIVE StackSearch(_, _, _)
StackSearch(stack, v, k) ==
    IF k > Len(stack) THEN "unknown"
    ELSE IF stack[k].value = v THEN stack[k].nilness
    ELSE StackSearch(stack, v, k + 1)

nilnessOf(stack, v) ==
    CASE v[1] = "Alloc" -> "isnonnil"
      [] v[1] = "Const" -> IF isNil(v) THEN "isnil" ELSE "isnonnil"
      [] OTHER -> StackSearch(stack, v, 1)

\* eq(b): whether the block ends with an equality comparison, and its true
\* (equal) and false (not equal) successors.
eq(cfg, b) ==
    LET t == cfg.term[b] IN
    IF t.kind = "If" /\ t.op = "EQL"
    THEN [ok |-> TRUE, tsucc |-> t.succs[1], fsucc |-> t.succs[2]]
    ELSE IF t.kind = "If" /\ t.op = "NEQ"
    THEN [ok |-> TRUE, tsucc |-> t.succs[2], fsucc |-> t.succs[1]]
    ELSE [ok |-> FALSE, tsucc |-> NoBlock, fsucc |-> NoBlock]

Dominees(cfg, b) == {d \in Blocks(cfg) : cfg.idom[d] = b}

\* len(d.Preds): the edges into d.
NumPreds(cfg, d) ==
    Cardinality({<<b, k>> \in Blocks(cfg) \X {1, 2} :
                    k <= Len(cfg.term[b].succs) /\ cfg.term[b].succs[k] = d})

\* The reports of the calls of block b: <<k, i>> for instruction k and
\* index i of its callee's panicArgs.
Reports(fn, st, done, b, stack) ==
    {<<k, i>> \in (DOMAIN fn.instrs) \X (0..MaxSize) :
        LET c == fn.instrs[k] IN
        /\ c.blk = b
        /\ c.kind = "Call"
        /\ ~c.invoke
        /\ c.callee # NoCallee
        /\ LET fact == ImportObjectFact(st, done, c.callee) IN
           /\ fact.has
           /\ i \in fact.args
           /\ i < Len(c.args)
           /\ nilnessOf(stack, c.args[i + 1]) = "isnil"}

RECURSIVE visit(_, _, _, _, _)
visit(fn, st, done, b, stack) ==
    LET cfg == fn.cfg
        e == eq(cfg, b)
        t == cfg.term[b]
        xnil == nilnessOf(stack, t.x)
        ynil == nilnessOf(stack, t.y)
        skip == IF xnil = ynil THEN e.fsucc ELSE e.tsucc
        f == IF xnil = "isnil"
             THEN [value |-> t.y, nilness |-> "isnil"]
             ELSE [value |-> t.x, nilness |-> "isnil"]
        push(d) ==
            IF NumPreds(cfg, d) = 1 /\ d = e.tsucc THEN Append(stack, f)
            ELSE IF NumPreds(cfg, d) = 1 /\ d = e.fsucc
            THEN Append(stack, [f EXCEPT !.nilness = negate(f.nilness)])
            ELSE stack
        below ==
            IF /\ e.ok /\ ynil # "unknown" /\ xnil # "unknown"
               /\ (xnil = "isnil" \/ ynil = "isnil")
            THEN UNION {visit(fn, st, done, d, stack) :
                          d \in {d \in Dominees(cfg, b) :
                                    ~(d = skip /\ NumPreds(cfg, d) = 1)}}
            ELSE IF e.ok /\ (xnil = "isnil" \/ ynil = "isnil")
            THEN UNION {visit(fn, st, done, d, push(d)) : d \in Dominees(cfg, b)}
            ELSE UNION {visit(fn, st, done, d, stack) : d \in Dominees(cfg, b)}
    IN  Reports(fn, st, done, b, stack) \cup below

\* The diagnostics runFunc(pass, fn) reports for fn.
runFunc(fn, st, done) == visit(fn, st, done, 0, <<>>)

(***************************************************************************)
(* run: the sweep loop, then the post-pass.                                *)
(***************************************************************************)
NFuncs == Len(funcs)

\* The orders a range loop may enumerate the keys of a map in.
KeyOrders(keys) ==
    {p \in [1..Cardinality(keys) -> keys] :
        \A j, k \in 1..Cardinality(keys) : p[j] = p[k] => j = k}

\* The orders the range loops of a scan of fn may take: one for each
\* instruction (the empty one where there is no map to enumerate).
Orders(fn, st, done) ==
    Product([k \in DOMAIN fn.instrs |->
        IF fn.instrs[k].kind \in CallKinds /\ fn.instrs[k].callee # NoCallee
        THEN KeyOrders(ImportObjectFact(st, done, fn.instrs[k].callee).args)
        ELSE {<<>>}])

InitRun ==
    /\ extDone \in (IF HasExtCall(funcs) THEN BOOLEAN ELSE {TRUE})
    /\ store = [f \in DOMAIN funcs |-> NoFact]
    /\ pc = "sweep"
    /\ cur = 1
    /\ cc = 0
    /\ sweeps = 1
    /\ pkgDoneCount = 0
    /\ diags = {}
    /\ last = [fn |-> 0, changed |-> FALSE, old |-> NoFact, new |-> NoFact]

Init == IsUnit("calls", funcs) /\ InitRun

\* One iteration of the loop over SrcFuncs: checkFunc(pass, fn).
CheckFuncStep ==
    /\ pc = "sweep"
    /\ cur <= NFuncs
    /\ \E ord \in Orders(funcs[cur], store, extDone) :
          LET r == checkFunc(funcs, cur, store, extDone, ord) IN
          /\ store' = r.store
          /\ cc' = IF r.changed THEN cc + 1 ELSE cc
          /\ last' = [fn |-> cur, changed |-> r.changed,
                      old |-> store[cur], new |-> r.store[cur]]
    /\ cur' = cur + 1
    /\ UNCHANGED <<funcs, extDone, pc, sweeps, pkgDoneCount, diags>>

\* cc == 0: export pkgDone and leave the loop.
Converge ==
    /\ pc = "sweep"
    /\ cur > NFuncs
    /\ cc = 0
    /\ pkgDoneCount' = pkgDoneCount + 1
    /\ pc' = "post"
    /\ cur' = 1
    /\ UNCHANGED <<funcs, extDone, store, cc, sweeps, diags, last>>

\* NextSweep exporting pkgDone at the end of every sweep.
NextSweepExportsDone ==
    /\ pc = "sweep"
    /\ cur > NFuncs
    /\ cc > 0
    /\ sweeps < MaxSweeps
    /\ sweeps' = sweeps + 1
    /\ pkgDoneCount' = pkgDoneCount + 1
    /\ cc' = 0
    /\ cur' = 1
    /\ UNCHANGED <<funcs, extDone, store, pc, diags, last>>

\* cc > 0: the next sweep.
NextSweep ==
    /\ pc = "sweep"
    /\ cur > NFuncs
    /\ cc > 0
    /\ sweeps < MaxSweeps
    /\ sweeps' = sweeps + 1
    /\ cc' = 0
    /\ cur' = 1
    /\ UNCHANGED <<funcs, extDone, store, pc, pkgDoneCount, diags, last>>

\* One iteration of the second loop over SrcFuncs: runFunc(pass, fn).
RunFuncStep ==
    /\ pc = "post"
    /\ cur <= NFuncs
    /\ diags' = diags \cup {<<cur, d[1], d[2]>> : d \in runFunc(funcs[cur], store, extDone)}
    /\ cur' = cur + 1
    /\ UNCHANGED <<funcs, extDone, store, pc, cc, sweeps, pkgDoneCount, last>>

\* return nil, nil
Return0 ==
    /\ pc = "post"
    /\ cur > NFuncs
    /\ pc' = "done"
    /\ UNCHANGED <<funcs, extDone, store, cur, cc, sweeps, pkgDoneCount, diags, last>>

Next == CheckFuncStep \/ Converge \/ NextSweep \/ RunFuncStep \/ Return0

Spec == Init /\ [][Next]_vars

\* The runs on the units of the family "scan".
InitScan == IsUnit("scan", funcs) /\ InitRun

SpecScan == InitScan /\ [][Next]_vars

\* The runs on the units of the family "diag".
InitDiag == IsUnit("diag", funcs) /\ InitRun

SpecDiag == InitDiag /\ [][Next]_vars

(***************************************************************************)
(* Properties.                                                             *)
(***************************************************************************)
Funcs == DOMAIN funcs

ParamsOf(f) == 0..(NParams(funcs[f]) - 1)

LoopDone == pkgDoneCount > 0

\* Instruction ins of f is a static call of callee whose argument g is the
\* parameter i of f.
PassesTo(ins, callee, g, i) ==
    /\ ins.kind \in CallKinds
    /\ ~ins.invoke
    /\ ins.callee = callee
    /\ g < Len(ins.args)
    /\ ins.args[g + 1] = Param(i)

\* C1: once the loop of run has ended, if g is in PanicArgs(G) and F calls G
\* statically with its parameter i as argument g, in a block that is not
\* nil-checked for the parameter, then i is in PanicArgs(F).
C1_TransitiveClosure ==
    LoopDone =>
        \A F \in Funcs, G \in Funcs :
            \A i \in ParamsOf(F), g \in Get(store, G) :
                (\E k \in DOMAIN funcs[F].instrs :
                    /\ PassesTo(funcs[F].instrs[k], Local(G), g, i)
                    /\ ~isNilChecked(funcs[F].cfg, Param(i), funcs[F].instrs[k].blk))
                => i \in Get(store, F)

\* The shapes of the spec's section 4.3 that dereference their operand:
\* instruction ins traps when the parameter i of fn is nil.
TrapShape(fn, i, ins) ==
    \/ ins.kind \in {"FieldAddr", "Field", "IndexAddr"} /\ ins.x = Param(i)
    \/ ins.kind = "TypeAssert" /\ ins.x = Param(i) /\ ~ins.commaOk
    \/ ins.kind = "Slice" /\ ins.x = Param(i) /\ fn.types[i + 1] = "Pointer"
    \/ ins.kind \in {"Store", "MapUpdate"} /\ ins.x = Param(i)
    \/ ins.kind = "UnOp" /\ ins.x = Param(i) /\ ins.op = "MUL"

\* ins is a static call that passes the parameter i of the caller at a
\* position on which the callee is recorded to panic.
TrapCall(i, ins) ==
    /\ ins.callee # NoCallee
    /\ \E g \in ImportObjectFact(store, extDone, ins.callee).args :
           PassesTo(ins, ins.callee, g, i)

\* Every referrer of the parameter i of f that would qualify as trapping
\* lies in a block that is nil-checked for the parameter.
AllGuarded(f, i) ==
    \A k \in DOMAIN funcs[f].instrs :
        LET ins == funcs[f].instrs[k] IN
        (TrapShape(funcs[f], i, ins) \/ TrapCall(i, ins))
            => isNilChecked(funcs[f].cfg, Param(i), ins.blk)

\* C3: a parameter whose trapping referrers (static calls of callees that
\* panic on the argument included) all lie in nil-checked blocks is in no
\* state in the stored PanicArgs of its function.
C3_GuardedNeverFlagged ==
    \A f \in Funcs : \A i \in ParamsOf(f) :
        AllGuarded(f, i) => i \notin Get(store, f)

\* The run has ended with a function whose parameter is passed, under a nil
\* check, to a callee that panics on it, and the parameter is not flagged.
C3_Witness ==
    /\ pc = "done"
    /\ \E f \in Funcs : \E i \in ParamsOf(f) :
          /\ AllGuarded(f, i)
          /\ \E k \in DOMAIN funcs[f].instrs :
                /\ TrapCall(i, funcs[f].instrs[k])
                /\ funcs[f].instrs[k].callee # ExtCallee
          /\ i \notin Get(store, f)

\* The kinds of type whose values can be nil (the spec's section 4.1).
NillableKinds == {"Pointer", "Interface", "Map", "Slice", "Chan"}

\* No call, go or defer of f has a parameter of f as an operand.
NoCallReferrers(f) ==
    \A k \in DOMAIN funcs[f].instrs : \A i \in ParamsOf(f) :
        funcs[f].instrs[k].kind \in CallKinds
            => ~RefersTo(funcs[f].instrs[k], Param(i))

\* The parameter i of f has a nillable type and a referrer of a trapping
\* shape in a block that is not nil-checked for it.
Flagged(f, i) ==
    /\ funcs[f].types[i + 1] \in NillableKinds
    /\ \E k \in DOMAIN funcs[f].instrs :
          /\ TrapShape(funcs[f], i, funcs[f].instrs[k])
          /\ ~isNilChecked(funcs[f].cfg, Param(i), funcs[f].instrs[k].blk)

\* All referrers of the parameter i of f are two-result type assertions.
OnlyCommaOk(f, i) ==
    \A k \in DOMAIN funcs[f].instrs :
        RefersTo(funcs[f].instrs[k], Param(i))
            => funcs[f].instrs[k].kind = "TypeAssert" /\ funcs[f].instrs[k].commaOk

\* fn with its instructions, and so the referrers of its parameters, in the
\* order p.
Reordered(fn, p) ==
    [fn EXCEPT !.instrs = [k \in DOMAIN fn.instrs |-> fn.instrs[p[k]]]]

\* The set a scan of fn builds when none of its referrers is a call.
ScanOf(fn) ==
    ParamLoop(fn, store, extDone, [k \in DOMAIN fn.instrs |-> <<>>], 0, {}).fact

\* What C2 states of function f.
ScanResult(f) ==
    /\ \A i \in ParamsOf(f) :
          /\ i \in Get(store, f) <=> Flagged(f, i)
          /\ OnlyCommaOk(f, i) => i \notin Get(store, f)
    /\ \A p \in KeyOrders(DOMAIN funcs[f].instrs) :
          ScanOf(Reordered(funcs[f], p)) = Get(store, f)

\* C2 as stated: once the loop of run has ended, for every function F whose
\* parameters have no call referrers, i is in PanicArgs(F) exactly if
\* params[i] has a nillable type and a referrer of a trapping shape in a
\* block that is not nil-checked; a scan with the referrers in another order
\* builds the same set, and a parameter that only two-result type
\* assertions refer to is not in it.
C2_ScanResultOfEveryFunction ==
    LoopDone => \A f \in Funcs : NoCallReferrers(f) => ScanResult(f)

\* C2, amended: the same of every function F that has an object (a declared
\* function or method; a function literal gets no fact).
C2_ScanResult ==
    LoopDone => \A f \in Funcs :
        (funcs[f].obj /\ NoCallReferrers(f)) => ScanResult(f)

\* The run has ended with a declared function one of whose parameters is
\* flagged by its second referrer, the first one being no evidence.
C2_Witness ==
    /\ pc = "done"
    /\ \E f \in Funcs : \E i \in Get(store, f) :
          /\ funcs[f].obj
          /\ NoCallReferrers(f)
          /\ \E k1, k2 \in DOMAIN funcs[f].instrs :
                /\ k1 < k2
                /\ RefersTo(funcs[f].instrs[k1], Param(i))
                /\ \/ ~TrapShape(funcs[f], i, funcs[f].instrs[k1])
                   \/ isNilChecked(funcs[f].cfg, Param(i), funcs[f].instrs[k1].blk)
                /\ TrapShape(funcs[f], i, funcs[f].instrs[k2])
                /\ ~isNilChecked(funcs[f].cfg, Param(i), funcs[f].instrs[k2].blk)

\* What a scan of function f against the store st yields.
Rescan(fs, f, st) ==
    {checkFunc(fs, f, st, extDone, ord) : ord \in Orders(fs[f], st, extDone)}

\* C4: a scan that adds an index to the set stored for a function (no entry
\* counting as the empty set) returns changed, so that another sweep
\* follows; and once the loop has ended, scanning any function again leaves
\* the store as it is.
C4_ConvergenceAfterQuietSweep ==
    /\ last.fn # 0 /\ last.new.args # last.old.args /\ last.old.args \subseteq last.new.args
          => last.changed
    /\ LoopDone =>
          \A f \in Funcs : \A r \in Rescan(funcs, f, store) :
              ~r.changed /\ Get(r.store, f) = Get(store, f)

\* The number of parameters of the unit whose type is nillable.
NillableParams ==
    Sum([f \in 1..Len(funcs) |->
            Cardinality({i \in ParamsOf(f) : isNillable(funcs[f].types[i + 1])})])

\* C5: the loop of run ends after at most (number of nillable parameters) + 1
\* sweeps, also when a callee's package is not done.
C5_SweepBound == sweeps <= NillableParams + 1

\* The unit with the calls of the other package's function made dynamic
\* calls, which a scan skips: as if that function had no PanicArgs.
SkipExtCalls(fs) ==
    [f \in DOMAIN fs |->
        [fs[f] EXCEPT !.instrs =
            [k \in DOMAIN fs[f].instrs |->
                IF fs[f].instrs[k].callee = ExtCallee
                THEN [fs[f].instrs[k] EXCEPT !.callee = NoCallee]
                ELSE fs[f].instrs[k]]]]

\* C6: when the other package's pkgDone cannot be imported, a scan records
\* for its function what it would record if that package's function had an
\* empty PanicArgs set.
C6_UnavailableCalleeAsEmpty ==
    (last.fn # 0 /\ ~extDone) =>
        LET before == [store EXCEPT ![last.fn] = last.old] IN
        \A r \in Rescan(SkipExtCalls(funcs), last.fn, before) :
            r.store[last.fn] = last.new

\* C7: no step removes an index from the set stored for a function, or
\* the entry of a function.
C7_MonotoneGrowth ==
    [][\A f \in Funcs :
          /\ Get(store, f) \subseteq Get(store', f)
          /\ store[f].has => store'[f].has]_vars

\* A call of checkFunc has replaced a stored set by a larger one.
C7_Witness ==
    /\ last.fn # 0
    /\ last.old.has
    /\ last.new.args # last.old.args
    /\ last.old.args \subseteq last.new.args

\* C8: pkgDone is exported at most once, only at the end of a sweep in which
\* no call of checkFunc returned true, and no fact changes after it (the
\* post-pass leaves the store as it is).
C8_PkgDoneAfterFacts ==
    [][/\ pkgDoneCount' \in {pkgDoneCount, pkgDoneCount + 1}
       /\ pkgDoneCount' <= 1
       /\ pkgDoneCount' > pkgDoneCount => (pc = "sweep" /\ cur > NFuncs /\ cc = 0)
       /\ pkgDoneCount > 0 => store' = store]_vars

\* The post-pass has run after pkgDone, over facts, and reported a call.
C8_Witness ==
    /\ pc = "done"
    /\ pkgDoneCount = 1
    /\ diags # {}
    /\ \E f \in Funcs : store[f].has

\* ins is a call, go or defer of a statically known function.
StaticCallOf(ins) == ins.kind \in CallKinds /\ ~ins.invoke /\ ins.callee # NoCallee

\* The successor that the If t takes when its operands are equal.
EqualSucc(t) == IF t.op = "EQL" THEN t.succs[1] ELSE t.succs[2]

\* b is dominated by the equal-branch, entered by its only edge, of a
\* comparison of v with nil.
RECURSIVE UnderEqualBranch(_, _, _)
UnderEqualBranch(cfg, v, b) ==
    LET bi == cfg.idom[b] IN
    IF bi = NoBlock THEN FALSE
    ELSE \/ /\ cfg.term[bi].kind = "If"
            /\ NilCompare(cfg.term[bi], v)
            /\ b = EqualSucc(cfg.term[bi])
            /\ NumPreds(cfg, b) = 1
         \/ UnderEqualBranch(cfg, v, bi)

ProvablyNil(fn, v, b) == isNil(v) \/ UnderEqualBranch(fn.cfg, v, b)

Diagnosed(f, k) == \E i \in 0..MaxSize : <<f, k, i>> \in diags

\* Some index of the PanicArgs of the callee of instruction k of f is the
\* position of an argument that is provably nil in the block of the call.
NilAtPanicArg(f, k) ==
    LET ins == funcs[f].instrs[k] IN
    \E i \in ImportObjectFact(store, extDone, ins.callee).args :
        i < Len(ins.args) /\ ProvablyNil(funcs[f], ins.args[i + 1], ins.blk)

\* C9: when run has returned, a statically dispatched call has a diagnostic
\* exactly if an argument at an index of its callee's PanicArgs is provably
\* nil in its block (the nil constant, or a value under the equal-branch of
\* its comparison with nil), and a call without static callee has none.
C9_DiagnosticsExactlyProvablyNil ==
    pc = "done" =>
        \A f \in Funcs : \A k \in DOMAIN funcs[f].instrs :
            IF StaticCallOf(funcs[f].instrs[k])
            THEN Diagnosed(f, k) <=> NilAtPanicArg(f, k)
            ELSE ~Diagnosed(f, k)

\* C10: the value a scan returns and the store it leaves are the same for
\* every order in which its range loops enumerate the callees' PanicArgs.
C10_Deterministic ==
    \A f \in Funcs : Cardinality(Rescan(funcs, f, store)) = 1

\* The last scan has flagged a parameter that no instruction dereferences,
\* through the call of another function whose PanicArgs has two indices,
\* which the range loop may enumerate in either order.
C10_Witness ==
    \E f \in Funcs : \E k \in DOMAIN funcs[f].instrs : \E i \in Get(store, f) :
        /\ last.fn = f
        /\ funcs[f].instrs[k].callee \notin {Local(f), ExtCallee}
        /\ TrapCall(i, funcs[f].instrs[k])
        /\ \A j \in DOMAIN funcs[f].instrs : ~TrapShape(funcs[f], i, funcs[f].instrs[j])
        /\ Cardinality(ImportObjectFact(store, extDone, funcs[f].instrs[k].callee).args) > 1
        /\ Cardinality(Orders(funcs[f], store, extDone)) > 1


\* C11: in every state, a parameter whose type is not nillable is not in
\* the stored PanicArgs of its function, also when it is passed to a callee
\* whose PanicArgs holds the position.
C11_NonNillableNeverFlagged ==
    \A f \in Funcs : \A i \in ParamsOf(f) :
        funcs[f].types[i + 1] \notin NillableKinds => i \notin Get(store, f)

\* The run has ended with a fact for a function that passes, unguarded, a
\* parameter of a type that is not nillable at a position of its callee's
\* PanicArgs, and the parameter is not in the fact.
C11_Witness ==
    /\ pc = "done"
    /\ \E f \in Funcs : \E i \in ParamsOf(f) :
          /\ store[f].has
          /\ funcs[f].types[i + 1] \notin NillableKinds
          /\ i \notin Get(store, f)
          /\ \E k \in DOMAIN funcs[f].instrs :
                /\ TrapCall(i, funcs[f].instrs[k])
                /\ ~isNilChecked(funcs[f].cfg, Param(i), funcs[f].instrs[k].blk)


\* What the spec's section 4.3 takes as trap evidence in a call: some index
\* of the callee's recorded set S is the position of an argument that is the
\* parameter i of fn, and the block of the call is not nil-checked for it.
CallEvidence(fn, i, ins, S) ==
    /\ \E k \in S : k < Len(ins.args) /\ ins.args[k + 1] = Param(i)
    /\ ~isNilChecked(fn.cfg, Param(i), ins.blk)

\* C12: in the scan that has just run (of function last.fn, against the
\* store it met), for every call, go or defer of a statically known callee
\* with a recorded set S and every parameter i of the caller it refers to,
\* the call is taken as trap evidence for i exactly if some k in S has
\* k < len(args) and args[k] the parameter, in a block that is not
\* nil-checked for it: whatever i is, i >= len(args) included, and in
\* whatever order the set is enumerated.
C12_CallBoundOnCalleeIndex ==
    last.fn # 0 =>
        LET f == last.fn
            before == [store EXCEPT ![f] = last.old]
        IN  \A k \in DOMAIN funcs[f].instrs : \A i \in ParamsOf(f) :
            LET ins == funcs[f].instrs[k]
                ffact == ImportObjectFact(before, extDone, ins.callee)
            IN  (/\ ins.kind \in CallKinds /\ ~ins.invoke /\ ins.callee # NoCallee
                 /\ RefersTo(ins, Param(i))
                 /\ ffact.has)
                => \A enum \in KeyOrders(ffact.args) :
                      (CallCase(funcs[f], i, ins, before, extDone, enum) = "trap")
                          <=> CallEvidence(funcs[f], i, ins, ffact.args)


\* The successor that the If t takes when its operands are not equal.
NotEqualSucc(t) == IF t.op = "EQL" THEN t.succs[2] ELSE t.succs[1]

\* On the chain b, idom(b), idom(idom(b)), ... some block ends in an If on a
\* comparison of v with the nil constant and the block before it on the
\* chain is the not-equal successor.
RECURSIVE OnCheckedChain(_, _, _)
OnCheckedChain(cfg, v, b) ==
    LET d == cfg.idom[b] IN
    IF d = NoBlock THEN FALSE
    ELSE \/ /\ cfg.term[d].kind = "If"
            /\ NilCompare(cfg.term[d], v)
            /\ b = NotEqualSucc(cfg.term[d])
         \/ OnCheckedChain(cfg, v, d)

\* C13: for every parameter P of the function that has just been scanned
\* and the block B of every referrer of P, isNilChecked(P, B) is true exactly
\* if somewhere on the dominator chain of B a block is the not-equal
\* successor of its immediate dominator's comparison of P with nil; a
\* dominator whose nil comparison of P has the current block as its other
\* successor does not end the walk.
C13_WholeDominatorChain ==
    last.fn # 0 =>
        \A i \in ParamsOf(last.fn) : \A k \in DOMAIN funcs[last.fn].instrs :
            RefersTo(funcs[last.fn].instrs[k], Param(i)) =>
                (isNilChecked(funcs[last.fn].cfg, Param(i), funcs[last.fn].instrs[k].blk)
                    <=> OnCheckedChain(funcs[last.fn].cfg, Param(i),
                                       funcs[last.fn].instrs[k].blk))


\* The kinds of type whose nil value a dereference panics on.
DereferencedKinds == {"Pointer", "Interface", "Map", "Slice"}

\* C14 as stated: for the type T of every parameter of the function that
\* has just been scanned, isNillable(T) is true exactly if the underlying
\* form of T is a pointer, interface, map, slice or channel.
C14_NillableWithChannel ==
    last.fn # 0 =>
        \A i \in ParamsOf(last.fn) :
            isNillable(funcs[last.fn].types[i + 1])
                <=> funcs[last.fn].types[i + 1] \in NillableKinds

\* C14, amended: isNillable(T) is true exactly if the underlying form of T
\* is a pointer, interface, map or slice, and false for channel types,
\* function types and every other type.
C14_Nillable ==
    last.fn # 0 =>
        \A i \in ParamsOf(last.fn) :
            /\ isNillable(funcs[last.fn].types[i + 1])
                  <=> funcs[last.fn].types[i + 1] \in DereferencedKinds
            /\ funcs[last.fn].types[i + 1] \in {"Chan", "Signature"}
                  => ~isNillable(funcs[last.fn].types[i + 1])

\* The scan of a function with a channel parameter and a nillable parameter
\* has run and has flagged the nillable one.
C14_Witness ==
    /\ last.fn # 0
    /\ \E i, j \in ParamsOf(last.fn) :
          /\ funcs[last.fn].types[i + 1] = "Chan"
          /\ funcs[last.fn].types[j + 1] \in DereferencedKinds
          /\ last.new.args = {j}

====
